---- MODULE Spec2Model ----
(***************************************************************************)
(* Model of src/agents/pi-tools.read.ts: the parameter normalizer, the     *)
(* required-parameter assertion, the sandbox path guard, the hierarchical  *)
(* .ignore policy resolver with its process-wide cache, and the tool       *)
(* wrappers composed from them.                                            *)
(*                                                                         *)
(* A JavaScript string is a sequence of tokens.  A token is one file name  *)
(* ("r", "s", "n", "..d"), one of the path words "." and "..", or one      *)
(* punctuation character ("/", " ", "!", "#", "*", "\n").  Paths are POSIX *)
(* paths (path.sep = "/"); an absolute normalised path is kept as the      *)
(* sequence of its segments, << >> being the filesystem root "/".  In a    *)
(* base64 payload the token "QUJD" is one block of four characters and     *)
(* "QUJD x 65" is sixty-five such blocks.                                  *)
(***************************************************************************)
EXTENDS Integers, Sequences, FiniteSets, TLC

----------------------------------------------------------------------------
(* String primitives *)

Sep == "/"

IsSpace(t) == t \in {" ", "\n"}

RECURSIVE TrimStart(_)
TrimStart(s) ==
  IF s # << >> /\ IsSpace(Head(s)) THEN TrimStart(Tail(s)) ELSE s

RECURSIVE TrimEnd(_)
TrimEnd(s) ==
  IF s # << >> /\ IsSpace(s[Len(s)]) THEN TrimEnd(SubSeq(s, 1, Len(s) - 1)) ELSE s

\* String.prototype.trim
Trim(s) == TrimEnd(TrimStart(s))

\* String.prototype.startsWith for a one-token needle
StartsWith(s, t) == s # << >> /\ s[1] = t

EndsWith(s, t) == s # << >> /\ s[Len(s)] = t

\* the tokens whose text begins with the two characters ".."
TokStartsWithDotDot(t) == t \in {"..", "..d"}

\* String.prototype.startsWith("..")
StartsWithDotDot(s) == s # << >> /\ TokStartsWithDotDot(s[1])

\* number of characters of a token
TokLen(t) ==
  IF t = "..d" THEN 3 ELSE IF t = ".." THEN 2
  ELSE IF t = "QUJD" THEN 4 ELSE IF t = "QUJD x 65" THEN 260 ELSE 1

RECURSIVE StrLen(_)
StrLen(s) == IF s = << >> THEN 0 ELSE TokLen(Head(s)) + StrLen(Tail(s))

RECURSIVE SplitFrom(_, _, _, _)
SplitFrom(s, sep, cur, acc) ==
  IF s = << >> THEN Append(acc, cur)
  ELSE IF Head(s) = sep THEN SplitFrom(Tail(s), sep, << >>, Append(acc, cur))
  ELSE SplitFrom(Tail(s), sep, Append(cur, Head(s)), acc)

\* String.prototype.split(sep): the sequence of the pieces between separators
Split(s, sep) == SplitFrom(s, sep, << >>, << >>)

RECURSIVE Join(_, _)
\* Array.prototype.join(sep)
Join(parts, sep) ==
  IF parts = << >> THEN << >>
  ELSE IF Len(parts) = 1 THEN parts[1]
  ELSE parts[1] \o <<sep>> \o Join(Tail(parts), sep)

Reverse(q) == [i \in 1..Len(q) |-> q[Len(q) + 1 - i]]

----------------------------------------------------------------------------
(* node:path, POSIX flavour *)

\* the text of an absolute path
RECURSIVE PathString(_)
PathString(p) ==
  IF p = << >> THEN <<Sep>>
  ELSE IF Len(p) = 1 THEN <<Sep, p[1]>>
  ELSE PathString(SubSeq(p, 1, Len(p) - 1)) \o <<Sep, p[Len(p)]>>

\* path.dirname of an absolute path; dirname("/") = "/"
Dirname(p) == IF p = << >> THEN << >> ELSE SubSeq(p, 1, Len(p) - 1)

RECURSIVE ResolveParts(_, _)
ResolveParts(base, parts) ==
  IF parts = << >> THEN base
  ELSE LET part == Head(parts)
           next == IF part = << >> \/ part = <<".">> THEN base
                   ELSE IF part = <<"..">> THEN Dirname(base)
                   ELSE Append(base, part[1])
       IN  ResolveParts(next, Tail(parts))

\* path.resolve(cwd, filePath) for an absolute cwd
PathResolve(cwd, filePath) ==
  ResolveParts(IF StartsWith(filePath, Sep) THEN << >> ELSE cwd, Split(filePath, Sep))

RECURSIVE CommonLen(_, _)
CommonLen(a, b) ==
  IF a # << >> /\ b # << >> /\ Head(a) = Head(b)
  THEN 1 + CommonLen(Tail(a), Tail(b)) ELSE 0

\* path.relative(from, to) of two absolute paths, as a string
PathRelative(from, to) ==
  LET c    == CommonLen(from, to)
      ups  == [i \in 1..(Len(from) - c) |-> <<"..">>]
      down == [i \in 1..(Len(to) - c) |-> <<to[c + i]>>]
  IN  Join(ups \o down, Sep)

\* path.isAbsolute
PathIsAbsolute(s) == StartsWith(s, Sep)

\* path.parse(p).root of an absolute POSIX path
PathParseRoot(p) == << >>

----------------------------------------------------------------------------
(* The "ignore" package: one flat, rooted rule set.  A matcher is the      *)
(* sequence of the rules added to it.                                      *)

\* ignore(): a matcher with no rules
IgnoreNew == << >>

\* a pattern the package accepts: not blank, not a comment
IgnoreCheckPattern(pattern) == Trim(pattern) # << >> /\ ~StartsWith(pattern, "#")

IgnoreCreateRule(pattern) ==
  IF StartsWith(pattern, "!")
  THEN [negative |-> TRUE, pattern |-> Tail(pattern)]
  ELSE [negative |-> FALSE, pattern |-> pattern]

RECURSIVE IgnoreAdd(_, _)
\* ig.add(patterns)
IgnoreAdd(ig, patterns) ==
  IF patterns = << >> THEN ig
  ELSE IgnoreAdd(IF IgnoreCheckPattern(Head(patterns))
                 THEN Append(ig, IgnoreCreateRule(Head(patterns))) ELSE ig,
                 Tail(patterns))

\* one pattern segment against one path segment; "*" matches any segment
SegMatch(patSeg, name) == patSeg = <<"*">> \/ patSeg = <<name>>

\* the rule's regular expression against a path; a pattern with a separator
\* at its start or middle is anchored to the matcher's root, a pattern with
\* a trailing separator matches directories only
RuleMatches(pattern, path) ==
  LET dirOnly  == EndsWith(pattern, Sep)
      body1    == IF dirOnly THEN SubSeq(pattern, 1, Len(pattern) - 1) ELSE pattern
      lead     == StartsWith(body1, Sep)
      body2    == IF lead THEN Tail(body1) ELSE body1
      anchored == lead \/ \E i \in 1..Len(body2) : body2[i] = Sep
      patSegs  == Split(body2, Sep)
      dirForm  == EndsWith(path, Sep)
      pathSegs == Split(IF dirForm THEN SubSeq(path, 1, Len(path) - 1) ELSE path, Sep)
  IN  /\ body2 # << >>
      /\ dirOnly => dirForm
      /\ IF anchored
         THEN /\ Len(pathSegs) = Len(patSegs)
              /\ \A i \in 1..Len(patSegs) :
                   pathSegs[i] # << >> /\ SegMatch(patSegs[i], pathSegs[i][1])
         ELSE /\ pathSegs[Len(pathSegs)] # << >>
              /\ SegMatch(patSegs[1], pathSegs[Len(pathSegs)][1])

RECURSIVE TestOneFrom(_, _, _)
TestOneFrom(rules, path, acc) ==
  IF rules = << >> THEN acc
  ELSE LET rule == Head(rules)
           skip == \/ (acc.unignored = rule.negative /\ acc.ignored # acc.unignored)
                   \/ (rule.negative /\ ~acc.ignored /\ ~acc.unignored)
           next == IF ~skip /\ RuleMatches(rule.pattern, path)
                   THEN [ignored |-> ~rule.negative, unignored |-> rule.negative]
                   ELSE acc
       IN  TestOneFrom(Tail(rules), path, next)

\* _testOne: the rules in order, the last matching rule deciding
TestOne(rules, path) == TestOneFrom(rules, path, [ignored |-> FALSE, unignored |-> FALSE])

RECURSIVE TestPath(_, _, _)
\* _t: a path whose parent directory is ignored is ignored; the parents are
\* tested in their directory form
TestPath(rules, segs, k) ==
  LET here == Join(SubSeq(segs, 1, k), Sep) \o (IF k < Len(segs) THEN <<Sep>> ELSE << >>)
  IN  IF k = 1 THEN TestOne(rules, here)
      ELSE LET parent == TestPath(rules, segs, k - 1)
           IN  IF parent.ignored THEN parent ELSE TestOne(rules, here)

\* checkPath: the package throws on an empty path and on a path that is not
\* path.relative()d
IgnorePathError(path) ==
  IF path = << >> THEN "TypeError"
  ELSE IF StartsWith(path, Sep) \/ Split(path, Sep)[1] \in {<<".">>, <<"..">>}
  THEN "RangeError"
  ELSE "none"

\* ig.ignores(path), for a path the package accepts
Ignores(ig, path) == TestPath(ig, Split(path, Sep), Len(Split(path, Sep))).ignored

----------------------------------------------------------------------------
(* JavaScript values.  An argument object is the function from its own     *)
(* keys to their values; a value is a string or a non-string.              *)

Str(text) == [kind |-> "string", text |-> text]

\* a value that is not a string
Num == [kind |-> "number", text |-> << >>]

\* the value of a property that the object does not have
Undefined == [kind |-> "undefined", text |-> << >>]

EmptyProps == [k \in {} |-> Undefined]

Obj(props) == [isObj |-> TRUE, props |-> props]

\* undefined, null or a primitive where an argument object is expected
NotAnObject == [isObj |-> FALSE, props |-> EmptyProps]

\* key in obj
Has(props, key) == key \in DOMAIN props

\* obj[key]
Get(props, key) == IF key \in DOMAIN props THEN props[key] ELSE Undefined

\* obj[key] = value
SetKey(props, key, value) ==
  [k \in DOMAIN props \cup {key} |-> IF k = key THEN value ELSE props[k]]

\* delete obj[key]
DeleteKey(props, key) == [k \in DOMAIN props \ {key} |-> props[k]]

IsString(v) == v.kind = "string"

\* typeof v === "string" && v.trim() is not empty
IsNonBlankString(v) == IsString(v) /\ Trim(v.text) # << >>

----------------------------------------------------------------------------
(* Parameter normalizer and required-parameter assertion *)

\* the alias pairs, in the order the code rewrites them
AliasPairs ==
  << [original |-> "path",    alias |-> "file_path"],
     [original |-> "oldText", alias |-> "old_string"],
     [original |-> "newText", alias |-> "new_string"] >>

\* RewriteAlias with the delete of the alias key left out
RewriteAlias_KeepAlias(props, pair) ==
  IF Has(props, pair.alias) /\ ~Has(props, pair.original)
  THEN SetKey(props, pair.original, props[pair.alias])
  ELSE props

\* alias -> canonical, only if the canonical key is absent
RewriteAlias(props, pair) ==
  IF Has(props, pair.alias) /\ ~Has(props, pair.original)
  THEN DeleteKey(SetKey(props, pair.original, props[pair.alias]), pair.alias)
  ELSE props

\* normalizeToolParams: undefined for a non-object, else a rewritten copy
normalizeToolParams(params) ==
  IF ~params.isObj THEN NotAnObject
  ELSE Obj(RewriteAlias(RewriteAlias(RewriteAlias(params.props,
             AliasPairs[1]), AliasPairs[2]), AliasPairs[3]))

\* normalized ?? (params && typeof params === "object" ? params : undefined)
RecordOf(normalized, params) ==
  IF normalized.isObj THEN normalized
  ELSE IF params.isObj THEN params ELSE NotAnObject

PathGroup == [keys |-> <<"path", "file_path">>, allowEmpty |-> FALSE,
              label |-> "path (path or file_path)"]

OldTextGroup == [keys |-> <<"oldText", "old_string">>, allowEmpty |-> FALSE,
                 label |-> "oldText (oldText or old_string)"]

NewTextGroup == [keys |-> <<"newText", "new_string">>, allowEmpty |-> FALSE,
                 label |-> "newText (newText or new_string)"]

CLAUDE_PARAM_GROUPS ==
  [read  |-> <<PathGroup>>,
   write |-> <<PathGroup>>,
   edit  |-> <<PathGroup, OldTextGroup, NewTextGroup>>]

NoError == [kind |-> "none", label |-> "", path |-> << >>]

\* one group: some key present with a string value, non-blank unless allowEmpty
GroupSatisfied(props, group) ==
  \E i \in 1..Len(group.keys) :
    /\ Has(props, group.keys[i])
    /\ IsString(props[group.keys[i]])
    /\ (group.allowEmpty \/ Trim(props[group.keys[i]].text) # << >>)

RECURSIVE FirstUnsatisfied(_, _)
FirstUnsatisfied(props, groups) ==
  IF groups = << >> THEN NoError
  ELSE IF ~GroupSatisfied(props, Head(groups))
  THEN [kind |-> "Missing required parameter", label |-> Head(groups).label, path |-> << >>]
  ELSE FirstUnsatisfied(props, Tail(groups))

\* assertRequiredParams: the error it throws, NoError if it returns
assertRequiredParams(record, groups) ==
  IF ~record.isObj
  THEN [kind |-> "Missing parameters", label |-> "", path |-> << >>]
  ELSE FirstUnsatisfied(record.props, groups)

----------------------------------------------------------------------------
(* Schema patch.  A tool is its parameter schema; a schema has a properties *)
(* object (the function from the declared names to their declarations) and *)
(* a required list, whose entries are values.                              *)

\* a schema value: isObj says whether tool.parameters is an object
Schema(properties, required) == [isObj |-> TRUE, properties |-> properties, required |-> required]

\* tool.parameters that is missing or not an object
NoSchema ==
  [isObj |-> FALSE, properties |-> [isObj |-> FALSE, props |-> EmptyProps],
   required |-> [isArray |-> FALSE, items |-> << >>]]

\* schema.properties that is an object
Properties(props) == [isObj |-> TRUE, props |-> props]

\* schema.properties that is missing or not an object
NoProperties == [isObj |-> FALSE, props |-> EmptyProps]

\* schema.required that is an array
RequiredList(items) == [isArray |-> TRUE, items |-> items]

\* schema.required that is missing or not an array
NoRequired == [isArray |-> FALSE, items |-> << >>]

RECURSIVE FilterStrings(_)
\* schema.required.filter((key) => typeof key === "string")
FilterStrings(items) ==
  IF items = << >> THEN << >>
  ELSE (IF IsString(Head(items)) THEN <<Head(items)>> ELSE << >>) \o FilterStrings(Tail(items))

\* required.indexOf(original), counted from 1; 0 if it is not there
IndexOf(items, key) ==
  IF \E i \in 1..Len(items) : items[i] = Str(<<key>>)
  THEN CHOOSE i \in 1..Len(items) :
         items[i] = Str(<<key>>) /\ \A j \in 1..(i - 1) : items[j] # Str(<<key>>)
  ELSE 0

\* required.splice(idx, 1)
Splice(items, idx) == SubSeq(items, 1, idx - 1) \o SubSeq(items, idx + 1, Len(items))

\* one round of for (const { original, alias } of aliasPairs)
PatchPair(acc, pair) ==
  IF ~Has(acc.properties, pair.original) THEN acc
  ELSE LET declared == IF ~Has(acc.properties, pair.alias)
                       THEN [acc EXCEPT !.properties =
                               SetKey(acc.properties, pair.alias, acc.properties[pair.original]),
                                        !.changed = TRUE]
                       ELSE acc
           idx      == IndexOf(declared.required, pair.original)
       IN  IF idx # 0
           THEN [declared EXCEPT !.required = Splice(declared.required, idx), !.changed = TRUE]
           ELSE declared

\* patchToolSchemaForClaudeCompatibility: the tool returned and whether it
\* is the very object that was passed in
patchToolSchemaForClaudeCompatibility(tool) ==
  IF ~tool.isObj \/ ~tool.properties.isObj THEN [tool |-> tool, same |-> TRUE]
  ELSE LET start == [properties |-> tool.properties.props,
                     required   |-> IF tool.required.isArray
                                    THEN FilterStrings(tool.required.items) ELSE << >>,
                     changed    |-> FALSE]
           end   == PatchPair(PatchPair(PatchPair(start, AliasPairs[1]), AliasPairs[2]),
                              AliasPairs[3])
       IN  IF ~end.changed THEN [tool |-> tool, same |-> TRUE]
           ELSE [tool |-> Schema(Properties(end.properties), RequiredList(end.required)),
                 same |-> FALSE]

----------------------------------------------------------------------------
(* Read results and the result normalizer *)

\* a content block: its type tag and the properties the normalizer looks at
ImageBlock(data, mimeType) ==
  [type |-> "image", data |-> data, mimeType |-> mimeType, text |-> Undefined]

TextBlock(text) ==
  [type |-> "text", data |-> Undefined, mimeType |-> Undefined, text |-> text]

\* a content entry that is null
NullBlock == [type |-> "null", data |-> Undefined, mimeType |-> Undefined, text |-> Undefined]

\* a tool result: its content (an array of blocks, or something else) and
\* whether sanitizeToolResultImages has been applied to it
ToolResult(content) == [isArray |-> TRUE, content |-> content, sanitized |-> FALSE]

\* a result whose content is not an array
NoContentResult == [isArray |-> FALSE, content |-> << >>, sanitized |-> FALSE]

\* const content = Array.isArray(result.content) ? result.content : []
ContentOf(result) == IF result.isArray THEN result.content ELSE << >>

\* the predicate of content.find: an image block with a string payload and
\* a string declared type
IsImageContentBlock(b) == b.type = "image" /\ IsString(b.data) /\ IsString(b.mimeType)

\* content.find(...): the index of the first such block, 0 if there is none
FindImage(content) ==
  IF \E i \in 1..Len(content) : IsImageContentBlock(content[i])
  THEN CHOOSE i \in 1..Len(content) :
         /\ IsImageContentBlock(content[i])
         /\ \A j \in 1..(i - 1) : ~IsImageContentBlock(content[j])
  ELSE 0

\* Math.min(256, trimmed.length)
SniffCap == 256

\* take - (take % 4)
Base64Block == 4

\* if (sliceLen < 8) return undefined
MinSliceLen == 8

\* sliceLen of sniffMimeFromBase64
SliceLen(base64) ==
  LET trimmed == Trim(base64)
      take    == IF StrLen(trimmed) < SniffCap THEN StrLen(trimmed) ELSE SniffCap
  IN  take - (take % Base64Block)

\* sniffMimeFromBase64 reaches detectMime: the payload is not blank and its
\* head is long enough
ReachesDetectMime(base64) == Trim(base64) # << >> /\ SliceLen(base64) >= MinSliceLen

\* the media types, as strings
ImagePng == <<"image", "/", "png">>

ImageJpeg == <<"image", "/", "jpeg">>

ApplicationPdf == <<"application", "/", "pdf">>

\* sniffed.startsWith("image/")
StartsWithImage(s) == Len(s) >= 2 /\ s[1] = "image" /\ s[2] = "/"

ReadImageHeader == "Read image file ["

\* rewriteReadImageHeader that leaves every text as it is
rewriteReadImageHeader_KeepText(text, mimeType) == text

\* rewriteReadImageHeader
rewriteReadImageHeader(text, mimeType) ==
  IF StartsWith(text, ReadImageHeader) /\ EndsWith(text, "]")
  THEN <<ReadImageHeader>> \o mimeType \o <<"]">>
  ELSE text

\* the callback of content.map: every block tagged image gets the sniffed
\* type, every text block with a string text gets its header rewritten
RewriteBlock(block, sniffed) ==
  IF block.type = "image"
  THEN [block EXCEPT !.mimeType = Str(sniffed)]
  ELSE IF block.type = "text" /\ IsString(block.text)
  THEN [block EXCEPT !.text = Str(rewriteReadImageHeader(block.text.text, sniffed))]
  ELSE block

\* { ...result, content: nextContent }
RewriteResult(result, sniffed) ==
  LET content == ContentOf(result)
  IN  [result EXCEPT !.isArray = TRUE,
                     !.content = [i \in 1..Len(content) |-> RewriteBlock(content[i], sniffed)]]

\* filePath of createOpenClawReadTool after base.execute
FilePathLabel(record) ==
  IF IsString(Get(record.props, "path")) THEN Get(record.props, "path").text
  ELSE <<"<unknown>">>

----------------------------------------------------------------------------
(* Ignore policy resolver: the pure parts of checkIgnorePolicy *)

\* the ignore file of a directory as fs.readFile sees it
Readable(text) == [err |-> "none", text |-> text]

NoFile == [err |-> "ENOENT", text |-> << >>]

Unreadable == [err |-> "EACCES", text |-> << >>]

\* path.resolve(root) of the root handed to the tool factory
RootResolved(root) == PathResolve(<< >>, root)

\* isInsideWorkspace
IsInsideWorkspace(absoluteFilePath, root) ==
  LET relToWorkspace == PathRelative(RootResolved(root), absoluteFilePath)
  IN  ~StartsWithDotDot(relToWorkspace) /\ ~PathIsAbsolute(relToWorkspace)

\* anchorDir
AnchorDir(absoluteFilePath, root) ==
  IF IsInsideWorkspace(absoluteFilePath, root)
  THEN RootResolved(root) ELSE PathParseRoot(absoluteFilePath)

\* cacheKey: anchorDir, a NUL, fileDir
CacheKey(absoluteFilePath, root) ==
  <<AnchorDir(absoluteFilePath, root), Dirname(absoluteFilePath)>>

RECURSIVE WalkUp(_, _, _, _)
\* the while (true) loop that fills dirsToCheck
WalkUp(current, anchorDir, isInside, dirs) ==
  LET pushed == Append(dirs, current)
      parent == Dirname(current)
  IN  IF current = anchorDir \/ current = Dirname(current) THEN pushed
      ELSE IF parent = current THEN pushed
      ELSE IF isInside /\ StrLen(PathString(parent)) < StrLen(PathString(anchorDir))
      THEN pushed
      ELSE WalkUp(parent, anchorDir, isInside, pushed)

\* DirsToCheck with dirsToCheck.reverse() left out
DirsToCheck_BottomUp(absoluteFilePath, root) ==
  WalkUp(Dirname(absoluteFilePath), AnchorDir(absoluteFilePath, root),
         IsInsideWorkspace(absoluteFilePath, root), << >>)

\* dirsToCheck after dirsToCheck.reverse()
DirsToCheck(absoluteFilePath, root) ==
  Reverse(WalkUp(Dirname(absoluteFilePath), AnchorDir(absoluteFilePath, root),
                 IsInsideWorkspace(absoluteFilePath, root), << >>))

\* prefix: the directory relative to the anchor, with a trailing separator
RulePrefix(anchorDir, dir) ==
  LET rel     == PathRelative(anchorDir, dir)
      withSep == IF rel # << >> /\ ~EndsWith(rel, Sep) THEN Append(rel, Sep) ELSE rel
      prefix  == IF dir = anchorDir THEN << >> ELSE withSep
  IN  Join(Split(prefix, Sep), "/")

\* one line of an ignore file: << >> if it is skipped, else the scoped rule
ScopeRule(line, prefix) ==
  LET rule       == Trim(line)
      isNegative == StartsWith(rule, "!")
      unNegated  == IF isNegative THEN Tail(rule) ELSE rule
      unRooted   == IF StartsWith(unNegated, "/") THEN Tail(unNegated) ELSE unNegated
      scoped     == prefix \o unRooted
  IN  IF rule = << >> \/ StartsWith(rule, "#") THEN << >>
      ELSE << IF isNegative THEN <<"!">> \o scoped ELSE scoped >>

RECURSIVE ScopeLines(_, _)
ScopeLines(lines, prefix) ==
  IF lines = << >> THEN << >>
  ELSE ScopeRule(Head(lines), prefix) \o ScopeLines(Tail(lines), prefix)

\* scopedRules of one ignore file
ScopedRules(content, prefix) == ScopeLines(Split(content, "\n"), prefix)

\* AddDirRules that blocks everything when an ignore file cannot be read
AddDirRules_FailClosed(ig, file, anchorDir, dir) ==
  IF file.err = "none"
  THEN IgnoreAdd(ig, ScopedRules(file.text, RulePrefix(anchorDir, dir)))
  ELSE IF file.err # "ENOENT" THEN IgnoreAdd(ig, << <<"*">> >>)
  ELSE ig

\* the body of the for loop over dirsToCheck: the matcher after one directory
AddDirRules(ig, file, anchorDir, dir) ==
  IF file.err = "none"
  THEN IgnoreAdd(ig, ScopedRules(file.text, RulePrefix(anchorDir, dir)))
  ELSE ig

\* checkPath: the target relative to the anchor
CheckPath(absoluteFilePath, root) ==
  Join(Split(PathRelative(AnchorDir(absoluteFilePath, root), absoluteFilePath), Sep), "/")

\* the outcome of the query that ends checkIgnorePolicy
Decision(ig, absoluteFilePath, root) ==
  LET checkPath == CheckPath(absoluteFilePath, root)
  IN  IF IgnorePathError(checkPath) # "none" THEN IgnorePathError(checkPath)
      ELSE IF Ignores(ig, checkPath) THEN "Access denied"
      ELSE "pass"

----------------------------------------------------------------------------
(* State *)

VARIABLES
  fs,           \* the .ignore file of each directory that may hold one
  ignoreCache,  \* ignoreCache: cache key -> matcher
  call,         \* the tool calls in flight, one record per call slot
  last,         \* the last checkIgnorePolicy invocation that finished
  ncalls,       \* number of tool calls started so far
  heap          \* the objects of one direct normalizeToolParams call

vars == <<fs, ignoreCache, call, last, ncalls, heap>>

\* bound on the number of tool calls of one run
MaxCalls == 2

\* call slots of the sequential specifications
Slots == {1}

\* no direct normalizeToolParams call is modelled
NoHeap == [given |-> NotAnObject, params |-> NotAnObject, normalized |-> NotAnObject,
           called |-> FALSE]

NoCheck == [abs |-> << >>, root |-> << >>, decision |-> "none"]

\* a call slot with no call in flight; the fields after "error" are the
\* observations of the call: whether the sandbox resolver ran and how it
\* answered, whether checkIgnorePolicy ran, how many ignore files it read,
\* the prefixes it scoped rules with, the path it queried, the matcher's
\* answer, how often and with what the underlying operation was invoked, the
\* directory chain the check built, the matcher it queried, the result of the
\* underlying operation, what detectMime answered, what
\* normalizeReadImageResult returned and what the caller got
IdleCall ==
  [pc |-> "idle", tool |-> "none", root |-> << >>, args |-> NotAnObject,
   passed |-> NotAnObject, layer |-> "none", filePath |-> << >>, abs |-> << >>,
   dirsLeft |-> << >>, ig |-> IgnoreNew, error |-> NoError,
   resolver |-> "none", ignoreRan |-> FALSE, reads |-> 0, prefixes |-> {},
   queried |-> << >>, matched |-> FALSE, decision |-> "none", before |-> NoCheck,
   execCount |-> 0, received |-> NotAnObject,
   chain |-> << >>, used |-> << >>, result |-> << >>, sniffed |-> << >>,
   normalizedResult |-> << >>, returned |-> << >>]

\* the tools the module builds: whether wrapSandboxPathGuard is the outer
\* layer, which wrapper is the inner layer, its required groups, and whether
\* createOpenClawReadTool was given a root
Tools ==
  [createSandboxedReadTool |->
     [guard |-> TRUE, inner |-> "read", groups |-> CLAUDE_PARAM_GROUPS.read, withRoot |-> FALSE],
   createSandboxedWriteTool |->
     [guard |-> TRUE, inner |-> "norm", groups |-> CLAUDE_PARAM_GROUPS.write, withRoot |-> FALSE],
   createSandboxedEditTool |->
     [guard |-> TRUE, inner |-> "norm", groups |-> CLAUDE_PARAM_GROUPS.edit, withRoot |-> FALSE],
   createOpenClawReadTool |->
     [guard |-> FALSE, inner |-> "read", groups |-> CLAUDE_PARAM_GROUPS.read, withRoot |-> TRUE],
   wrapToolParamNormalization |->
     [guard |-> FALSE, inner |-> "norm", groups |-> CLAUDE_PARAM_GROUPS.edit, withRoot |-> FALSE]]

ToolNames == DOMAIN Tools

\* fs.readFile(path.join(dir, ".ignore"), "utf8")
ReadFile(dir) == IF dir \in DOMAIN fs THEN fs[dir] ELSE NoFile

----------------------------------------------------------------------------
(* The synchronous stretches of a call, as functions of the call record *)

\* throw new Error(...): the call's promise rejects
Throw(cr, kind, label, path) ==
  [cr EXCEPT !.pc = "failed", !.error = [kind |-> kind, label |-> label, path |-> path]]

\* the wrapped tool's original execute is invoked
BaseExecute(cr, params) ==
  [cr EXCEPT !.pc = "executing", !.execCount = @ + 1, !.received = params]

\* normalized ?? params
OrParams(normalized, params) == IF normalized.isObj THEN normalized ELSE params

\* FinishCheck with the throw on a match left out
FinishCheck_NoThrow(cr, ig) ==
  LET decision == Decision(ig, cr.abs, cr.root)
      seen     == [cr EXCEPT !.queried = <<CheckPath(cr.abs, cr.root)>>,
                             !.matched = (decision = "Access denied"),
                             !.decision = decision, !.used = <<ig>>,
                             !.dirsLeft = << >>, !.ig = IgnoreNew]
  IN  IF decision \in {"pass", "Access denied"} THEN [seen EXCEPT !.pc = "checked"]
      ELSE Throw(seen, decision, "", << >>)

\* the end of checkIgnorePolicy: query the matcher, throw on a match
FinishCheck(cr, ig) ==
  LET decision == Decision(ig, cr.abs, cr.root)
      seen     == [cr EXCEPT !.queried = <<CheckPath(cr.abs, cr.root)>>,
                             !.matched = (decision = "Access denied"),
                             !.decision = decision, !.used = <<ig>>,
                             !.dirsLeft = << >>, !.ig = IgnoreNew]
  IN  IF decision = "pass" THEN [seen EXCEPT !.pc = "checked"]
      ELSE IF decision = "Access denied" THEN Throw(seen, decision, "", cr.abs)
      ELSE Throw(seen, decision, "", << >>)

\* CheckIgnorePolicy that never finds the matcher in the cache
CheckIgnorePolicy_NoLookup(cr, absoluteFilePath, layer) ==
  [cr EXCEPT !.abs = absoluteFilePath, !.layer = layer, !.ignoreRan = TRUE,
             !.before = last, !.pc = "reading",
             !.chain = DirsToCheck(absoluteFilePath, cr.root),
             !.dirsLeft = DirsToCheck(absoluteFilePath, cr.root), !.ig = IgnoreNew]

\* checkIgnorePolicy up to its first await: a cache hit goes straight to the
\* query, a miss builds dirsToCheck and starts reading
CheckIgnorePolicy(cr, absoluteFilePath, layer) ==
  LET entered == [cr EXCEPT !.abs = absoluteFilePath, !.layer = layer,
                            !.ignoreRan = TRUE, !.before = last]
      cacheKey == CacheKey(absoluteFilePath, cr.root)
  IN  IF cacheKey \in DOMAIN ignoreCache
      THEN FinishCheck(entered, ignoreCache[cacheKey])
      ELSE [entered EXCEPT !.pc = "reading",
                           !.chain = DirsToCheck(absoluteFilePath, cr.root),
                           !.dirsLeft = DirsToCheck(absoluteFilePath, cr.root),
                           !.ig = IgnoreNew]

\* NormExecute that hands the raw arguments to the wrapped tool
NormExecute_PassRaw(cr, params, groups) ==
  LET normalized == normalizeToolParams(params)
      record     == RecordOf(normalized, params)
      missing    == IF groups # << >> THEN assertRequiredParams(record, groups) ELSE NoError
  IN  IF missing # NoError THEN Throw(cr, missing.kind, missing.label, << >>)
      ELSE BaseExecute(cr, params)

\* execute of wrapToolParamNormalization(tool, groups)
NormExecute(cr, params, groups) ==
  LET normalized == normalizeToolParams(params)
      record     == RecordOf(normalized, params)
      missing    == IF groups # << >> THEN assertRequiredParams(record, groups) ELSE NoError
  IN  IF missing # NoError THEN Throw(cr, missing.kind, missing.label, << >>)
      ELSE BaseExecute(cr, OrParams(normalized, params))

\* execute of createOpenClawReadTool(base, root), up to base.execute
ReadExecute(cr, params, withRoot) ==
  LET normalized == normalizeToolParams(params)
      record     == RecordOf(normalized, params)
      missing    == assertRequiredParams(record, CLAUDE_PARAM_GROUPS.read)
      filePath   == Get(record.props, "path")
  IN  IF missing # NoError THEN Throw(cr, missing.kind, missing.label, << >>)
      ELSE IF withRoot /\ IsNonBlankString(filePath)
      THEN CheckIgnorePolicy([cr EXCEPT !.passed = OrParams(normalized, params),
                                        !.filePath = filePath.text],
                             PathResolve(RootResolved(cr.root), filePath.text), "read")
      ELSE BaseExecute(cr, OrParams(normalized, params))

\* tool.execute of the layer under the sandbox guard, or of an unguarded tool
InnerExecute(cr, params) ==
  IF Tools[cr.tool].inner = "read"
  THEN ReadExecute(cr, params, Tools[cr.tool].withRoot)
  ELSE NormExecute(cr, params, Tools[cr.tool].groups)

\* GuardExecute that looks for the path in the raw arguments
GuardExecute_RawPath(cr, args) ==
  LET normalized == normalizeToolParams(args)
      filePath   == Get(args.props, "path")
  IN  IF IsNonBlankString(filePath)
      THEN [cr EXCEPT !.pc = "resolving", !.filePath = filePath.text,
                      !.passed = OrParams(normalized, args)]
      ELSE InnerExecute(cr, OrParams(normalized, args))

\* execute of wrapSandboxPathGuard(tool, root), up to its first await
GuardExecute(cr, args) ==
  LET normalized == normalizeToolParams(args)
      record     == RecordOf(normalized, args)
      filePath   == Get(record.props, "path")
  IN  IF IsNonBlankString(filePath)
      THEN [cr EXCEPT !.pc = "resolving", !.filePath = filePath.text,
                      !.passed = OrParams(normalized, args)]
      ELSE InnerExecute(cr, OrParams(normalized, args))

\* return sanitizeToolResultImages(normalizedResult, ...): the call waits
\* for the sanitizer
Sanitize(cr, normalizedResult) ==
  [cr EXCEPT !.pc = "sanitizing", !.normalizedResult = <<normalizedResult>>]

\* AfterSniff that lets a sniffed type outside the image family through
AfterSniff_NoFamilyCheck(cr, sniffed) ==
  LET result  == cr.result[1]
      content == ContentOf(result)
      image   == content[FindImage(content)]
      seen    == [cr EXCEPT !.sniffed = <<sniffed>>]
  IN  IF ~IsString(sniffed) \/ sniffed.text = << >> THEN Sanitize(seen, result)
      ELSE IF sniffed = image.mimeType THEN Sanitize(seen, result)
      ELSE Sanitize(seen, RewriteResult(result, sniffed.text))

\* normalizeReadImageResult from the answer of sniffMimeFromBase64 on
AfterSniff(cr, sniffed) ==
  LET result  == cr.result[1]
      content == ContentOf(result)
      image   == content[FindImage(content)]
      seen    == [cr EXCEPT !.sniffed = <<sniffed>>]
  IN  IF ~IsString(sniffed) \/ sniffed.text = << >> THEN Sanitize(seen, result)
      ELSE IF ~StartsWithImage(sniffed.text)
      THEN Throw(seen, "read: file looks like", "", FilePathLabel(cr.received))
      ELSE IF sniffed = image.mimeType THEN Sanitize(seen, result)
      ELSE Sanitize(seen, RewriteResult(result, sniffed.text))

\* createOpenClawReadTool once base.execute resolved: normalizeReadImageResult
\* up to the call of detectMime
NormalizeReadImageResult(cr, result) ==
  LET content == ContentOf(result)
      found   == FindImage(content)
      got     == [cr EXCEPT !.result = <<result>>]
  IN  IF found = 0 THEN Sanitize(got, result)
      ELSE IF Trim(content[found].data.text) = << >>
      THEN Throw(got, "read: image payload is empty", "", FilePathLabel(cr.received))
      ELSE IF ~ReachesDetectMime(content[found].data.text) THEN AfterSniff(got, Undefined)
      ELSE [got EXCEPT !.pc = "sniffing"]

\* the wrappers that hand on the promise of tool.execute: the caller gets
\* the result of the underlying operation as it is
PassResult(cr, result) ==
  [cr EXCEPT !.pc = "done", !.result = <<result>>, !.returned = <<result>>]

\* the code that runs when the underlying operation resolved
AfterExecute(cr, result) ==
  IF Tools[cr.tool].inner = "read" THEN NormalizeReadImageResult(cr, result)
  ELSE PassResult(cr, result)

\* the image sanitizer hands back the result it was given, processed
sanitizeToolResultImages(result) == [result EXCEPT !.sanitized = TRUE]

\* the sandbox path resolver accepts a path that stays under the root; it
\* may reject any path (a symlink escape is not visible in the path text)
SandboxPathInside(filePath, cwd, root) ==
  LET resolved == PathResolve(RootResolved(cwd), filePath)
      relative == PathRelative(RootResolved(root), resolved)
  IN  Split(relative, Sep)[1] # <<"..">>

\* one iteration of for (const dir of dirsToCheck), once readFile settled
ReadStep(cr, file) ==
  LET dir       == Head(cr.dirsLeft)
      anchorDir == AnchorDir(cr.abs, cr.root)
      ig        == AddDirRules(cr.ig, file, anchorDir, dir)
  IN  [cr EXCEPT !.ig = ig, !.dirsLeft = Tail(cr.dirsLeft), !.reads = @ + 1,
                 !.prefixes = IF ig # cr.ig THEN @ \cup {RulePrefix(anchorDir, dir)} ELSE @]

\* CacheSet that keeps a single entry
CacheSet_EvictOthers(cache, cacheKey, ig) == [k \in {cacheKey} |-> ig]

\* CacheSet that adds the rules to the entry the key already has
CacheSet_Append(cache, cacheKey, ig) ==
  [k \in DOMAIN cache \cup {cacheKey} |->
     IF k = cacheKey THEN (IF k \in DOMAIN cache THEN cache[k] \o ig ELSE ig) ELSE cache[k]]

\* ignoreCache.set(cacheKey, ig)
CacheSet(cache, cacheKey, ig) ==
  [k \in DOMAIN cache \cup {cacheKey} |-> IF k = cacheKey THEN ig ELSE cache[k]]

\* CacheAfterRead that stores the matcher after every directory
CacheAfterRead_EveryStep(cache, read) ==
  CacheSet(cache, CacheKey(read.abs, read.root), read.ig)

\* the cache after one iteration: the matcher is stored once the loop is over
CacheAfterRead(cache, read) ==
  IF read.dirsLeft = << >>
  THEN CacheSet(cache, CacheKey(read.abs, read.root), read.ig)
  ELSE cache

LastAfter(old, new) ==
  IF old.decision = "none" /\ new.decision # "none"
  THEN [abs |-> new.abs, root |-> new.root, decision |-> new.decision]
  ELSE last

----------------------------------------------------------------------------
(* Inputs *)

\* the sandbox roots handed to the tool factories
Roots == { <<"/", "r">>, <<"/", "r", "/", "s">> }

\* marks a key the argument object does not have
Absent == [kind |-> "absent", text |-> << >>]

KeyOrder == <<"path", "file_path", "oldText", "old_string", "newText", "new_string">>

\* values tried for path and file_path
PathChoices ==
  { Absent, Num, Str(<<" ">>), Str(<<"n">>), Str(<<"..", "/", "n">>), Str(<<".">>) }

\* values tried for oldText, old_string, newText and new_string
TextChoices == { Absent, Num, Str(<<" ">>), Str(<<"t">>) }

MkArgs(t) ==
  Obj([k \in {KeyOrder[i] : i \in {j \in 1..6 : t[j] # Absent}} |->
         t[CHOOSE i \in 1..6 : KeyOrder[i] = k]])

\* every combination of path and file_path, with the edit texts all absent,
\* all canonical or all aliased
PathArgs ==
  { MkArgs(<<p, fp, e[1], e[2], e[3], e[4]>>) :
      p \in PathChoices, fp \in PathChoices,
      e \in { <<Absent, Absent, Absent, Absent>>,
              <<Str(<<"t">>), Absent, Str(<<"t">>), Absent>>,
              <<Absent, Str(<<"t">>), Absent, Str(<<"t">>)>> } }

\* every combination of the edit texts, with the path canonical or aliased
TextArgs ==
  { MkArgs(<<pp[1], pp[2], o, os, n, ns>>) :
      pp \in { <<Str(<<"n">>), Absent>>, <<Absent, Str(<<"n">>)>> },
      o \in TextChoices, os \in TextChoices \ {Num},
      n \in TextChoices \ {Num}, ns \in TextChoices \ {Str(<<" ">>)} }

\* the argument values a caller may pass
ArgObjects == {NotAnObject} \cup PathArgs \cup TextArgs

\* the directories that may hold an ignore file
IgnoreDirs == { << >>, <<"r">>, <<"r", "s">> }

\* ignore files of the tool-pipeline specification
ToolFiles ==
  { f \in [IgnoreDirs -> {NoFile, Readable(<<"n">>)}] :
      f[<< >>] = NoFile /\ (f[<<"r">>] = NoFile => f[<<"r", "s">>] = NoFile) }

\* what the underlying operation returns in the tool-pipeline specification
PlainResults == { ToolResult(<< TextBlock(Str(<<"t">>)) >>) }

\* detectMime throws
DetectThrows == [kind |-> "throws", text |-> << >>]

\* what detectMime may answer
DetectOutcomes ==
  { Undefined, DetectThrows, Str(<< >>), Str(ImagePng), Str(ImageJpeg), Str(ApplicationPdf) }

\* the sandbox root of the tool-pipeline specification
ToolRoots == { <<"/", "r", "/", "s">> }

----------------------------------------------------------------------------
(* Actions: one per stretch of code between two awaits *)

\* a caller invokes tool.execute(toolCallId, args, signal, onUpdate)
Start(c, tool, root, args) ==
  /\ call[c].pc = "idle"
  /\ ncalls < MaxCalls
  /\ LET fresh == [IdleCall EXCEPT !.tool = tool, !.root = root, !.args = args]
         next  == IF Tools[tool].guard THEN GuardExecute(fresh, args)
                  ELSE InnerExecute(fresh, args)
     IN  /\ call' = [call EXCEPT ![c] = next]
         /\ last' = LastAfter(fresh, next)
  /\ ncalls' = ncalls + 1
  /\ UNCHANGED <<fs, ignoreCache, heap>>

CallTool(c) ==
  /\ call[c].pc = "idle"
  /\ \E tool \in ToolNames, root \in ToolRoots, args \in ArgObjects : Start(c, tool, root, args)

\* await assertSandboxPath({ filePath, cwd: root, root }) settles
AssertSandboxPathSettles(c) ==
  /\ call[c].pc = "resolving"
  /\ \E accepted \in BOOLEAN :
       LET cr   == call[c]
           next ==
             IF accepted
             THEN CheckIgnorePolicy([cr EXCEPT !.resolver = "ok"],
                                    PathResolve(RootResolved(cr.root), cr.filePath), "guard")
             ELSE Throw([cr EXCEPT !.resolver = "rejected"],
                        "Path escapes sandbox root", "", << >>)
       IN  /\ accepted => SandboxPathInside(cr.filePath, cr.root, cr.root)
           /\ call' = [call EXCEPT ![c] = next]
           /\ last' = LastAfter(cr, next)
  /\ UNCHANGED <<fs, ignoreCache, ncalls, heap>>

\* await fs.readFile(ignorePath) settles; after the last directory the
\* matcher is stored in the cache and queried
ReadIgnoreFile(c) ==
  /\ call[c].pc = "reading"
  /\ LET cr   == call[c]
         read == ReadStep(cr, ReadFile(Head(cr.dirsLeft)))
         next == IF read.dirsLeft = << >> THEN FinishCheck(read, read.ig) ELSE read
     IN  /\ call' = [call EXCEPT ![c] = next]
         /\ last' = LastAfter(cr, next)
         /\ ignoreCache' = CacheAfterRead(ignoreCache, read)
  /\ UNCHANGED <<fs, ncalls, heap>>

\* await checkIgnorePolicy(resolved, root) returned without throwing
CheckIgnorePolicyReturns(c) ==
  /\ call[c].pc = "checked"
  /\ call' = [call EXCEPT ![c] =
                IF call[c].layer = "guard" THEN InnerExecute(call[c], call[c].passed)
                ELSE BaseExecute(call[c], call[c].passed)]
  /\ UNCHANGED <<fs, ignoreCache, last, ncalls, heap>>

\* the underlying operation's promise resolves with one of the given results
UnderlyingReturnsFrom(c, results) ==
  /\ call[c].pc = "executing"
  /\ \E result \in results : call' = [call EXCEPT ![c] = AfterExecute(call[c], result)]
  /\ UNCHANGED <<fs, ignoreCache, last, ncalls, heap>>

UnderlyingReturns(c) == UnderlyingReturnsFrom(c, PlainResults)

\* the underlying operation's promise rejects: the wrappers do not catch
UnderlyingThrows(c) ==
  /\ call[c].pc = "executing"
  /\ call' = [call EXCEPT ![c] = Throw(call[c], "underlying operation failed", "", << >>)]
  /\ UNCHANGED <<fs, ignoreCache, last, ncalls, heap>>

\* await detectMime({ buffer: head }) settles: a media type, no result, or
\* an exception that sniffMimeFromBase64 turns into no result
DetectMimeSettles(c) ==
  /\ call[c].pc = "sniffing"
  /\ \E outcome \in DetectOutcomes :
       call' = [call EXCEPT ![c] =
                  AfterSniff(call[c], IF outcome = DetectThrows THEN Undefined ELSE outcome)]
  /\ UNCHANGED <<fs, ignoreCache, last, ncalls, heap>>

\* sanitizeToolResultImages settles and the caller gets its result
SanitizeSettles(c) ==
  /\ call[c].pc = "sanitizing"
  /\ call' = [call EXCEPT ![c].pc = "done",
                          ![c].returned = <<sanitizeToolResultImages(call[c].normalizedResult[1])>>]
  /\ UNCHANGED <<fs, ignoreCache, last, ncalls, heap>>

\* the caller has the call's result or error; the slot is free again
Return(c) ==
  /\ call[c].pc \in {"done", "failed"}
  /\ call' = [call EXCEPT ![c] = IdleCall]
  /\ UNCHANGED <<fs, ignoreCache, last, ncalls, heap>>

----------------------------------------------------------------------------
(* Specification of the tool pipeline *)

EmptyCache == [k \in {} |-> IgnoreNew]

Init ==
  /\ fs \in ToolFiles
  /\ ignoreCache = EmptyCache
  /\ call = [c \in Slots |-> IdleCall]
  /\ last = NoCheck
  /\ ncalls = 0
  /\ heap = NoHeap

Next ==
  \E c \in Slots :
    \/ CallTool(c)
    \/ AssertSandboxPathSettles(c)
    \/ ReadIgnoreFile(c)
    \/ CheckIgnorePolicyReturns(c)
    \/ UnderlyingReturns(c)
    \/ UnderlyingThrows(c)
    \/ SanitizeSettles(c)
    \/ Return(c)

Spec == Init /\ [][Next]_vars

----------------------------------------------------------------------------
(* Specification of the ignore policy resolver: createOpenClawReadTool with *)
(* a root, called with absolute paths, over a richer set of ignore files    *)

\* the texts tried for an ignore file
RootTexts ==
  { <<"n">>, <<"*">>, <<"/", "n">>, <<"#", "n", "\n", "\n", " ", "n", " ">> }

SubTexts == { <<"n">>, <<"!", "n">> }

IgnoreFiles ==
  { f \in [IgnoreDirs -> {NoFile, Unreadable} \cup
                         {Readable(t) : t \in RootTexts \cup SubTexts}] :
      /\ f[<< >>] \in {NoFile, Readable(<<"n">>)}
      /\ f[<<"r">>] \in {NoFile, Unreadable} \cup {Readable(t) : t \in RootTexts}
      /\ f[<<"r", "s">>] \in {NoFile} \cup {Readable(t) : t \in SubTexts} }

\* the absolute paths checked
Targets ==
  { << >>, <<"n">>, <<"r">>, <<"r", "n">>, <<"r", "s">>, <<"r", "s", "n">>,
    <<"r", "s", "s", "n">>, <<"r", "..d", "n">> }

CheckTarget(c) ==
  /\ call[c].pc = "idle"
  /\ \E root \in Roots, target \in Targets :
       Start(c, "createOpenClawReadTool", root, Obj([path |-> Str(PathString(target))]))

InitIgnore ==
  /\ fs \in IgnoreFiles
  /\ ignoreCache = EmptyCache
  /\ call = [c \in Slots |-> IdleCall]
  /\ last = NoCheck
  /\ ncalls = 0
  /\ heap = NoHeap

NextIgnore ==
  \E c \in Slots :
    \/ CheckTarget(c)
    \/ ReadIgnoreFile(c)
    \/ CheckIgnorePolicyReturns(c)
    \/ UnderlyingReturns(c)
    \/ UnderlyingThrows(c)
    \/ SanitizeSettles(c)
    \/ Return(c)

IgnoreSpec == InitIgnore /\ [][NextIgnore]_vars

----------------------------------------------------------------------------
(* Specification of normalizeToolParams called on its own: the caller's    *)
(* object and the returned object are two objects of the heap              *)

NormKeys == KeyOrder \o <<"limit">>

NormValues == { Absent, Num, Str(<<"a">>), Str(<<"b">>) }

MkNormArgs(t) ==
  Obj([k \in {NormKeys[i] : i \in {j \in 1..7 : t[j] # Absent}} |->
         t[CHOOSE i \in 1..7 : NormKeys[i] = k]])

NormInputs ==
  {NotAnObject} \cup
  { MkNormArgs(t) : t \in NormValues \X NormValues \X NormValues \X NormValues
                          \X NormValues \X NormValues \X {Absent, Num} }

\* const normalized = { ...record } and the rewrites on the copy: the
\* caller's object stays as it was
NormalizeInHeap(h) ==
  [h EXCEPT !.normalized = normalizeToolParams(h.params), !.called = TRUE]

NormalizeCall ==
  /\ ~heap.called
  /\ heap' = NormalizeInHeap(heap)
  /\ UNCHANGED <<fs, ignoreCache, call, last, ncalls>>

InitNorm ==
  /\ fs = [d \in IgnoreDirs |-> NoFile]
  /\ ignoreCache = EmptyCache
  /\ call = [c \in Slots |-> IdleCall]
  /\ last = NoCheck
  /\ ncalls = 0
  /\ \E params \in NormInputs :
       heap = [given |-> params, params |-> params, normalized |-> NotAnObject,
               called |-> FALSE]

NextNorm == NormalizeCall

NormSpec == InitNorm /\ [][NextNorm]_vars

----------------------------------------------------------------------------
(* Specification of the read tools' result path: the read tools called     *)
(* with a path, the underlying operation answering with every short        *)
(* sequence of content blocks                                              *)

\* bound on the number of content blocks of a result
MaxBlocks == 2

\* base64 payloads: empty, blank, one block, two blocks, two blocks in
\* blanks, more than the sniffing cap
Payloads ==
  { << >>, <<" ">>, <<"QUJD">>, <<"QUJD", "QUJD">>, <<" ", "QUJD", "QUJD", " ">>,
    <<"QUJD x 65">> }

\* the content blocks tried
Blocks ==
  { ImageBlock(Str(<<"QUJD", "QUJD">>), Str(ImagePng)),
    ImageBlock(Str(<<" ", "QUJD", "QUJD", " ">>), Str(ImageJpeg)),
    ImageBlock(Str(<<"QUJD x 65">>), Str(ImagePng)),
    ImageBlock(Str(<<"QUJD">>), Str(ImagePng)),
    ImageBlock(Str(<< >>), Str(ImagePng)),
    ImageBlock(Str(<<" ">>), Str(ImageJpeg)),
    ImageBlock(Str(<<"QUJD", "QUJD">>), Num),
    ImageBlock(Num, Str(ImagePng)),
    TextBlock(Str(<<ReadImageHeader>> \o ImagePng \o <<"]">>)),
    TextBlock(Str(<<ReadImageHeader>> \o ImagePng \o <<"]", "t">>)),
    TextBlock(Str(<<"t">>)),
    TextBlock(Num),
    NullBlock }

RECURSIVE BlockSeqs(_)
BlockSeqs(n) ==
  IF n = 0 THEN { << >> }
  ELSE BlockSeqs(n - 1) \cup
       { Append(q, b) : q \in { r \in BlockSeqs(n - 1) : Len(r) = n - 1 }, b \in Blocks }

\* what the underlying read operation may resolve with
ReadResults == { NoContentResult } \cup { ToolResult(q) : q \in BlockSeqs(MaxBlocks) }

\* the arguments of the read calls
ReadArgs ==
  { Obj([path |-> Str(<<"n">>)]),
    Obj([file_path |-> Str(<<"n">>)]),
    Obj([path |-> Num, file_path |-> Str(<<"n">>)]) }

ReadTools == { "createSandboxedReadTool", "createOpenClawReadTool" }

CallReadTool(c) ==
  /\ call[c].pc = "idle"
  /\ \E tool \in ReadTools, root \in ToolRoots, args \in ReadArgs : Start(c, tool, root, args)

ReadReturns(c) == UnderlyingReturnsFrom(c, ReadResults)

InitRead ==
  /\ fs = [d \in IgnoreDirs |-> NoFile]
  /\ ignoreCache = EmptyCache
  /\ call = [c \in Slots |-> IdleCall]
  /\ last = NoCheck
  /\ ncalls = 0
  /\ heap = NoHeap

NextRead ==
  \E c \in Slots :
    \/ CallReadTool(c)
    \/ AssertSandboxPathSettles(c)
    \/ ReadIgnoreFile(c)
    \/ CheckIgnorePolicyReturns(c)
    \/ ReadReturns(c)
    \/ UnderlyingThrows(c)
    \/ DetectMimeSettles(c)
    \/ SanitizeSettles(c)
    \/ Return(c)

ReadSpec == InitRead /\ [][NextRead]_vars

----------------------------------------------------------------------------
(* Specification of patchToolSchemaForClaudeCompatibility called on its    *)
(* own, and once more on the tool it returned                              *)

\* bound on the length of a required list
MaxRequired == 3

\* the names a schema may declare, and the declarations tried for each
SchemaKeys == <<"path", "file_path", "oldText", "old_string", "newText", "limit">>

SchemaChoices ==
  << {Absent, Str(<<"a">>)}, {Absent, Str(<<"a">>), Str(<<"b">>)}, {Absent, Str(<<"a">>)},
     {Absent, Str(<<"b">>)}, {Absent, Str(<<"a">>)}, {Absent, Str(<<"a">>)} >>

MkProperties(t) ==
  [k \in {SchemaKeys[i] : i \in {j \in 1..6 : t[j] # Absent}} |->
     t[CHOOSE i \in 1..6 : SchemaKeys[i] = k]]

\* the entries a required list may hold
RequiredEntries == { Str(<<"path">>), Str(<<"oldText">>), Str(<<"newText">>), Str(<<"limit">>), Num }

RECURSIVE RequiredSeqs(_)
RequiredSeqs(n) ==
  IF n = 0 THEN { << >> }
  ELSE RequiredSeqs(n - 1) \cup
       { Append(q, x) : q \in { r \in RequiredSeqs(n - 1) : Len(r) = n - 1 },
                        x \in RequiredEntries }

\* the tools handed to the patch
SchemaInputs ==
  { NoSchema, Schema(NoProperties, RequiredList(<< Str(<<"path">>) >>)) } \cup
  { Schema(Properties(MkProperties(t)), r) :
      t \in SchemaChoices[1] \X SchemaChoices[2] \X SchemaChoices[3] \X SchemaChoices[4]
             \X SchemaChoices[5] \X SchemaChoices[6],
      r \in {NoRequired} \cup { RequiredList(q) : q \in RequiredSeqs(MaxRequired) } }

\* const properties = { ...schema.properties } and required = filter(...):
\* the patch works on copies, the caller's tool stays as it was
PatchInHeap(h, tool) ==
  LET out == patchToolSchemaForClaudeCompatibility(tool)
  IN  IF h.calls = 0
      THEN [h EXCEPT !.patched = out.tool, !.same = out.same, !.calls = 1]
      ELSE [h EXCEPT !.again = out.tool, !.againSame = out.same, !.calls = 2]

\* patchToolSchemaForClaudeCompatibility(tool)
PatchCall ==
  /\ heap.calls = 0
  /\ heap' = PatchInHeap(heap, heap.params)
  /\ UNCHANGED <<fs, ignoreCache, call, last, ncalls>>

\* patchToolSchemaForClaudeCompatibility(patched)
PatchAgain ==
  /\ heap.calls = 1
  /\ heap' = PatchInHeap(heap, heap.patched)
  /\ UNCHANGED <<fs, ignoreCache, call, last, ncalls>>

InitSchema ==
  /\ fs = [d \in IgnoreDirs |-> NoFile]
  /\ ignoreCache = EmptyCache
  /\ call = [c \in Slots |-> IdleCall]
  /\ last = NoCheck
  /\ ncalls = 0
  /\ \E tool \in SchemaInputs :
       heap = [given |-> tool, params |-> tool, patched |-> NoSchema, same |-> FALSE,
               again |-> NoSchema, againSame |-> FALSE, calls |-> 0]

NextSchema == PatchCall \/ PatchAgain

SchemaSpec == InitSchema /\ [][NextSchema]_vars

----------------------------------------------------------------------------
(* Specification of concurrent checks: several calls of                    *)
(* createOpenClawReadTool with a root in flight at once, over ignore files *)
(* that do not change.  The calls interleave at their awaits.              *)

\* bound on the number of calls in flight at once
MaxSlots == 2

ConcSlots == 1..MaxSlots

ConcRoots == { <<"/", "r">> }

\* two targets in one directory and one in another
ConcTargets == { <<"r", "s", "n">>, <<"r", "s", "s">>, <<"r", "n">> }

ConcFiles ==
  { f \in [IgnoreDirs -> {NoFile, Readable(<<"n">>), Readable(<<"!", "n">>)}] :
      /\ f[<< >>] = NoFile
      /\ f[<<"r">>] \in {NoFile, Readable(<<"n">>)}
      /\ f[<<"r", "s">>] \in {NoFile, Readable(<<"!", "n">>)} }

CheckConcurrently(c) ==
  /\ call[c].pc = "idle"
  /\ \E root \in ConcRoots, target \in ConcTargets :
       Start(c, "createOpenClawReadTool", root, Obj([path |-> Str(PathString(target))]))

InitConc ==
  /\ fs \in ConcFiles
  /\ ignoreCache = EmptyCache
  /\ call = [c \in ConcSlots |-> IdleCall]
  /\ last = NoCheck
  /\ ncalls = 0
  /\ heap = NoHeap

NextConc ==
  \E c \in ConcSlots :
    \/ CheckConcurrently(c)
    \/ ReadIgnoreFile(c)
    \/ CheckIgnorePolicyReturns(c)
    \/ UnderlyingReturns(c)
    \/ UnderlyingThrows(c)
    \/ SanitizeSettles(c)
    \/ Return(c)

ConcSpec == InitConc /\ [][NextConc]_vars

----------------------------------------------------------------------------
(* Specification of checks over ignore files that change: calls in flight  *)
(* at once, the user editing, creating or deleting ignore files at any     *)
(* moment                                                                  *)

StaleRoots == { <<"/", "r">> }

StaleTargets == { <<"r", "n">>, <<"r", "s", "n">> }

\* what an ignore file may be changed to
StaleContents == { NoFile, Readable(<<"n">>) }

CheckStale(c) ==
  /\ call[c].pc = "idle"
  /\ \E root \in StaleRoots, target \in StaleTargets :
       Start(c, "createOpenClawReadTool", root, Obj([path |-> Str(PathString(target))]))

\* an ignore file is written, created or deleted outside this layer
ChangeIgnoreFile ==
  /\ \E dir \in IgnoreDirs \ {<< >>}, file \in StaleContents :
       /\ fs[dir] # file
       /\ fs' = [fs EXCEPT ![dir] = file]
  /\ UNCHANGED <<ignoreCache, call, last, ncalls, heap>>

InitStale ==
  /\ fs = [d \in IgnoreDirs |-> IF d = <<"r">> THEN Readable(<<"n">>) ELSE NoFile]
  /\ ignoreCache = EmptyCache
  /\ call = [c \in ConcSlots |-> IdleCall]
  /\ last = NoCheck
  /\ ncalls = 0
  /\ heap = NoHeap

NextStale ==
  \/ ChangeIgnoreFile
  \/ \E c \in ConcSlots :
       \/ CheckStale(c)
       \/ ReadIgnoreFile(c)
       \/ CheckIgnorePolicyReturns(c)
       \/ UnderlyingReturns(c)
       \/ UnderlyingThrows(c)
       \/ SanitizeSettles(c)
       \/ Return(c)

StaleSpec == InitStale /\ [][NextStale]_vars

----------------------------------------------------------------------------
(* Claims about the tool pipeline (Spec) *)

\* a call is in flight or has ended in slot c
InCall(c) == call[c].pc # "idle"

\* the call goes through wrapSandboxPathGuard
Guarded(c) == InCall(c) /\ Tools[call[c].tool].guard

\* the call supplies its path as a non-blank string under path, or under
\* file_path alone
SuppliesPath(args) ==
  /\ args.isObj
  /\ \/ IsNonBlankString(Get(args.props, "path"))
     \/ (~Has(args.props, "path") /\ IsNonBlankString(Get(args.props, "file_path")))

\* C1 (as stated): in a sandboxed tool the underlying operation is invoked
\* only after the sandbox path resolver succeeded and the ignore check found
\* no match in the same call, whatever the argument object.
C1_ExecuteOnlyAfterChecks ==
  \A c \in Slots :
    (Guarded(c) /\ call[c].execCount > 0)
      => (call[c].resolver = "ok" /\ call[c].decision = "pass")

\* C2: when the sandbox path resolver rejects the path of a guarded call
\* (given under path, or under file_path alone) the call fails, the
\* underlying operation is invoked zero times and checkIgnorePolicy is not
\* reached; such a call always consults the resolver before anything else.
C2_RejectedPathNeverExecutes ==
  \A c \in Slots :
    (Guarded(c) /\ SuppliesPath(call[c].args)) =>
      /\ call[c].pc = "resolving" \/ call[c].resolver \in {"ok", "rejected"}
      /\ call[c].pc = "resolving" => (call[c].execCount = 0 /\ ~call[c].ignoreRan)
      /\ call[c].resolver = "rejected" =>
           /\ call[c].pc = "failed"
           /\ call[c].error.kind = "Path escapes sandbox root"
           /\ call[c].execCount = 0
           /\ ~call[c].ignoreRan /\ call[c].reads = 0

C2_Witness ==
  \E c \in Slots :
    /\ Guarded(c)
    /\ DOMAIN call[c].args.props = {"file_path"}
    /\ call[c].args.props["file_path"] = Str(<<"..", "/", "n">>)
    /\ call[c].resolver = "rejected"
    /\ call[c].pc = "failed"

\* C3: whenever the matcher reports the resolved path as ignored, the call
\* fails with an access-denied error naming the absolute path and the
\* underlying operation is never invoked, under wrapSandboxPathGuard and
\* under createOpenClawReadTool with a root alike.
C3_IgnoredPathDenied ==
  \A c \in Slots :
    (InCall(c) /\ call[c].matched) =>
      /\ call[c].layer \in {"guard", "read"}
      /\ call[c].pc = "failed"
      /\ call[c].error = [kind |-> "Access denied", label |-> "", path |-> call[c].abs]
      /\ call[c].execCount = 0

C3_Witness ==
  \E c \in Slots :
    /\ Guarded(c)
    /\ call[c].layer = "guard"
    /\ call[c].matched
    /\ call[c].abs = <<"r", "s", "n">>
    /\ call[c].pc = "failed"

\* every group of the tool is given under its alias only, as a non-blank string
AliasOnly(c) ==
  /\ call[c].args.isObj
  /\ \A i \in 1..Len(Tools[call[c].tool].groups) :
       LET keys == Tools[call[c].tool].groups[i].keys
       IN  /\ ~Has(call[c].args.props, keys[1])
           /\ IsNonBlankString(Get(call[c].args.props, keys[2]))

MissingKinds == {"Missing parameters", "Missing required parameter"}

\* C6: validation is applied to the normalized record: a call giving each
\* required parameter only under its alias, as a non-blank string, is not
\* rejected as missing a parameter and the underlying operation receives the
\* canonical keys with the alias values; the underlying operation only ever
\* receives the normalized record, which satisfies every required group; a
\* call that fails validation never reaches the underlying operation.
C6_ValidationAfterNormalization ==
  \A c \in Slots :
    InCall(c) =>
      /\ AliasOnly(c) =>
           /\ call[c].error.kind \notin MissingKinds
           /\ call[c].execCount > 0 =>
                \A i \in 1..Len(Tools[call[c].tool].groups) :
                  LET keys == Tools[call[c].tool].groups[i].keys
                  IN  /\ Get(call[c].received.props, keys[1]) = call[c].args.props[keys[2]]
                      /\ ~Has(call[c].received.props, keys[2])
      /\ call[c].execCount > 0 =>
           /\ call[c].received = normalizeToolParams(call[c].args)
           /\ assertRequiredParams(call[c].received, Tools[call[c].tool].groups) = NoError
      /\ call[c].error.kind \in MissingKinds => call[c].execCount = 0

C6_Witness ==
  \E c \in Slots :
    /\ InCall(c)
    /\ call[c].tool = "wrapToolParamNormalization"
    /\ DOMAIN call[c].args.props = {"file_path", "old_string", "new_string"}
    /\ AliasOnly(c)
    /\ call[c].pc = "executing"
    /\ DOMAIN call[c].received.props = {"path", "oldText", "newText"}

----------------------------------------------------------------------------
(* Claims about normalizeToolParams (NormSpec) *)

\* C4 (as stated): when an object has both a canonical key and its alias,
\* the result keeps the canonical value and has no alias key.
C4_AliasRemovedWhenBothPresent ==
  (heap.called /\ heap.given.isObj) =>
    \A i \in 1..Len(AliasPairs) :
      (Has(heap.given.props, AliasPairs[i].original) /\ Has(heap.given.props, AliasPairs[i].alias))
        => /\ Get(heap.normalized.props, AliasPairs[i].original)
                = heap.given.props[AliasPairs[i].original]
           /\ ~Has(heap.normalized.props, AliasPairs[i].alias)

\* the aliases of the given object that have no canonical key beside them
AliasOnlyKeys(props) ==
  { AliasPairs[i].alias : i \in { j \in 1..Len(AliasPairs) :
      Has(props, AliasPairs[j].alias) /\ ~Has(props, AliasPairs[j].original) } }

\* C5: for an alias present without its canonical key, the result holds the
\* alias's value under the canonical key and has no alias key; every other
\* key is kept with its value and no other key appears; the caller's object
\* is not modified.
C5_AliasOnlyRewritten ==
  (heap.called /\ heap.given.isObj) =>
    /\ heap.normalized.isObj
    /\ \A i \in 1..Len(AliasPairs) :
         AliasPairs[i].alias \in AliasOnlyKeys(heap.given.props) =>
           /\ Get(heap.normalized.props, AliasPairs[i].original)
                = heap.given.props[AliasPairs[i].alias]
           /\ ~Has(heap.normalized.props, AliasPairs[i].alias)
    /\ \A k \in DOMAIN heap.given.props \ AliasOnlyKeys(heap.given.props) :
         Get(heap.normalized.props, k) = heap.given.props[k]
    /\ DOMAIN heap.normalized.props =
         (DOMAIN heap.given.props \ AliasOnlyKeys(heap.given.props))
           \cup { AliasPairs[i].original : i \in { j \in 1..Len(AliasPairs) :
                    AliasPairs[j].alias \in AliasOnlyKeys(heap.given.props) } }
    /\ heap.params = heap.given

C5_Witness ==
  /\ heap.called
  /\ DOMAIN heap.given.props = {"file_path", "new_string", "limit"}
  /\ DOMAIN heap.normalized.props = {"path", "newText", "limit"}
  /\ heap.normalized.props["path"] = Str(<<"a">>)

----------------------------------------------------------------------------
(* Claims about the ignore policy resolver (IgnoreSpec) *)

\* checkIgnorePolicy has finished in the call of slot c
Checked(c) == InCall(c) /\ call[c].decision # "none"

\* the names a path segment may have
SegNames == {"r", "s", "n", "..d"}

\* path p lies below directory d
IsBelow(p, d) == Len(p) > Len(d) /\ SubSeq(p, 1, Len(d)) = d

\* C7: with the single exclusion name in the root's ignore file and the
\* single rule !name in the ignore file of the root's subdirectory sub (name
\* and sub being two entries of the root), root/sub/name is permitted and
\* root/name is blocked.
C7_DeeperNegationOverrides ==
  \A c \in Slots :
    Checked(c) =>
      LET R == RootResolved(call[c].root)
      IN  \A sub \in SegNames : \A name \in SegNames \ {sub} :
            ( /\ ReadFile(R) = Readable(<<name>>)
              /\ ReadFile(Append(R, sub)) = Readable(<<"!", name>>) ) =>
                /\ call[c].abs = R \o <<sub, name>> => call[c].decision = "pass"
                /\ call[c].abs = Append(R, name) => call[c].decision = "Access denied"

C7_Witness ==
  \E c \in Slots :
    /\ Checked(c)
    /\ call[c].root = <<"/", "r">>
    /\ fs[<<"r">>] = Readable(<<"n">>)
    /\ fs[<<"r", "s">>] = Readable(<<"!", "n">>)
    /\ call[c].before = [abs |-> <<"r", "n">>, root |-> <<"/", "r">>, decision |-> "Access denied"]
    /\ call[c].abs = <<"r", "s", "n">>
    /\ call[c].decision = "pass"
    /\ call[c].reads = 2

\* C8 (as stated): with one slash-free exclusion in the root's ignore file
\* and no ignore file below the root, every path below the root whose file
\* name matches the pattern is blocked, at any depth.
C8_RootPatternBlocksEveryDepth ==
  \A c \in Slots :
    Checked(c) =>
      LET R == RootResolved(call[c].root)
      IN  \A pat \in SegNames \cup {"*"} :
            ( /\ ReadFile(R) = Readable(<<pat>>)
              /\ \A d \in IgnoreDirs : IsBelow(d, R) => ReadFile(d) = NoFile
              /\ IsBelow(call[c].abs, R)
              /\ SegMatch(<<pat>>, call[c].abs[Len(call[c].abs)]) )
                => call[c].decision = "Access denied"

\* C9: a check of the same path and root as the check that finished just
\* before it reaches the same decision and reads no ignore file, the matcher
\* being in the cache under (anchor, parent directory of the path).
C9_SecondCheckServedFromCache ==
  \A c \in Slots :
    ( /\ Checked(c)
      /\ call[c].before.decision # "none"
      /\ call[c].before.abs = call[c].abs
      /\ call[c].before.root = call[c].root ) =>
        /\ call[c].decision = call[c].before.decision
        /\ call[c].reads = 0
        /\ <<AnchorDir(call[c].abs, call[c].root), Dirname(call[c].abs)>> \in DOMAIN ignoreCache

C9_Witness ==
  \E c \in Slots :
    /\ Checked(c)
    /\ call[c].abs = <<"r", "s", "n">>
    /\ call[c].before = [abs |-> call[c].abs, root |-> call[c].root, decision |-> "Access denied"]
    /\ call[c].decision = "Access denied"
    /\ call[c].reads = 0

\* the segments of a relative path string
RelSegments(s) == { Split(s, Sep)[i] : i \in 1..Len(Split(s, Sep)) }

\* C10 (as stated): every prefix rules are scoped with lies inside the
\* anchor's subtree (no ".." segment), and the path the matcher is queried
\* with is non-empty and has no ".." segment, for every target and root.
C10_RulesAndQueryInsideAnchor ==
  \A c \in Slots :
    InCall(c) =>
      /\ \A prefix \in call[c].prefixes : <<"..">> \notin RelSegments(prefix)
      /\ call[c].queried # << >> =>
           /\ call[c].queried[1] # << >>
           /\ <<"..">> \notin RelSegments(call[c].queried[1])

\* the ignore file of a directory in a given set of files
FileIn(files, dir) == IF dir \in DOMAIN files THEN files[dir] ELSE NoFile

RECURSIVE BuildRules(_, _, _, _)
\* the matcher one uninterrupted build makes of the given files
BuildRules(files, dirs, anchorDir, ig) ==
  IF dirs = << >> THEN ig
  ELSE BuildRules(files, Tail(dirs), anchorDir,
                  AddDirRules(ig, FileIn(files, Head(dirs)), anchorDir, Head(dirs)))

\* the matcher a single build makes for a target
SingleBuild(files, abs, root) ==
  BuildRules(files, DirsToCheck(abs, root), AnchorDir(abs, root), IgnoreNew)

\* the decision a check of the target reaches when it runs alone on an
\* empty cache
SequentialDecision(files, abs, root) == Decision(SingleBuild(files, abs, root), abs, root)

\* the given files without the ignore file of directory d
Without(files, d) == [x \in DOMAIN files |-> IF x = d THEN NoFile ELSE files[x]]

\* C15 (as stated): a rule of the ignore file of directory D never changes
\* the decision for a path outside D's subtree, and a slash-free name in the
\* ignore file of a directory D below the anchor (no other ignore file
\* existing) blocks every file of that name below D, at any depth.
C15_RuleScopedToSubtree ==
  \A c \in Slots :
    Checked(c) =>
      \A D \in IgnoreDirs :
        /\ ~IsBelow(call[c].abs, D) =>
             call[c].decision = SequentialDecision(Without(fs, D), call[c].abs, call[c].root)
        /\ \A name \in SegNames :
             ( /\ IsBelow(D, AnchorDir(call[c].abs, call[c].root))
               /\ ReadFile(D) = Readable(<<name>>)
               /\ \A d \in IgnoreDirs \ {D} : ReadFile(d) = NoFile
               /\ IsBelow(call[c].abs, D)
               /\ call[c].abs[Len(call[c].abs)] = name )
                 => call[c].decision = "Access denied"

\* the check of the call in slot c missed the cache and built a chain
Built(c) == InCall(c) /\ call[c].chain # << >>

\* C16 (as stated): the directory chain a check builds starts with the
\* anchor directory, ends with the target's parent directory, and each
\* element is the parent of the next, for every target and root.
C16_ChainFromAnchorToParent ==
  \A c \in Slots :
    Built(c) =>
      LET chain == call[c].chain
      IN  /\ chain[1] = AnchorDir(call[c].abs, call[c].root)
          /\ chain[Len(chain)] = Dirname(call[c].abs)
          /\ \A i \in 1..(Len(chain) - 1) :
               chain[i] = Dirname(chain[i + 1]) /\ chain[i] # chain[i + 1]

RECURSIVE RulesOfReadable(_, _, _)
\* the rules of the readable ignore files of a chain, in chain order
RulesOfReadable(dirs, anchorDir, ig) ==
  IF dirs = << >> THEN ig
  ELSE RulesOfReadable(Tail(dirs), anchorDir,
         IF ReadFile(Head(dirs)).err = "none"
         THEN IgnoreAdd(ig, ScopedRules(ReadFile(Head(dirs)).text,
                                        RulePrefix(anchorDir, Head(dirs))))
         ELSE ig)

\* C17: an ignore file that cannot be read, because it does not exist or for
\* another reason, never fails the call: every directory of the chain is
\* still read, and the matcher queried holds exactly the rules of the
\* readable files, in chain order; the decision is made from it.
C17_ReadFailureContributesNoRules ==
  \A c \in Slots :
    InCall(c) =>
      /\ call[c].error.kind \notin {"ENOENT", "EACCES"}
      /\ (call[c].pc = "reading" /\ call[c].reads > 0) =>
           call[c].ig = RulesOfReadable(SubSeq(call[c].chain, 1, call[c].reads),
                                        AnchorDir(call[c].abs, call[c].root), IgnoreNew)
      /\ (Built(c) /\ Checked(c)) =>
           LET rules == RulesOfReadable(call[c].chain,
                                        AnchorDir(call[c].abs, call[c].root), IgnoreNew)
           IN  /\ call[c].reads = Len(call[c].chain)
               /\ call[c].used = <<rules>>
               /\ call[c].decision = Decision(rules, call[c].abs, call[c].root)

C17_Witness ==
  \E c \in Slots :
    /\ Built(c) /\ Checked(c)
    /\ call[c].root = <<"/", "r">>
    /\ call[c].abs = <<"r", "s", "n">>
    /\ fs[<<"r">>] = Unreadable
    /\ fs[<<"r", "s">>] = Readable(<<"n">>)
    /\ call[c].reads = 2
    /\ call[c].decision = "Access denied"

----------------------------------------------------------------------------
(* Claims about concurrent checks (ConcSpec) *)

\* the call slots of the state
AllSlots == DOMAIN call

\* no call is building a matcher
NoBuildInFlight == \A c \in AllSlots : call[c].pc # "reading"

\* C11: with unchanged ignore files, under every interleaving each check
\* reaches the decision a check running alone on an empty cache reaches, and
\* once no build is in flight every cache entry holds the ordered rules one
\* single build produces for its key.
C11_ConcurrentChecksAgreeWithSequential ==
  /\ \A c \in AllSlots :
       (InCall(c) /\ call[c].decision # "none") =>
         call[c].decision = SequentialDecision(fs, call[c].abs, call[c].root)
  /\ NoBuildInFlight =>
       \A root \in ConcRoots, target \in ConcTargets :
         CacheKey(target, root) \in DOMAIN ignoreCache =>
           ignoreCache[CacheKey(target, root)] = SingleBuild(fs, target, root)

\* two calls built the matcher of the same key side by side
C11_Witness ==
  \E c \in AllSlots, d \in AllSlots :
    /\ c # d
    /\ call[c].pc = "failed" /\ call[c].decision = "Access denied"
    /\ call[c].abs = <<"r", "s", "n">> /\ call[c].reads = 2
    /\ call[d].pc = "checked" /\ call[d].decision = "pass"
    /\ call[d].abs = <<"r", "s", "s">> /\ call[d].reads = 2
    /\ CacheKey(call[c].abs, call[c].root) = CacheKey(call[d].abs, call[d].root)
    /\ CacheKey(call[c].abs, call[c].root) \in DOMAIN ignoreCache

\* every matcher in the cache holds the rules of every directory of its
\* chain, and so does every matcher a call has queried
OnlyCompleteMatchers ==
  /\ \A root \in ConcRoots, target \in ConcTargets :
       CacheKey(target, root) \in DOMAIN ignoreCache =>
         ignoreCache[CacheKey(target, root)] = SingleBuild(fs, target, root)
  /\ \A c \in AllSlots :
       (InCall(c) /\ call[c].used # << >>) =>
         call[c].used = <<SingleBuild(fs, call[c].abs, call[c].root)>>

\* a step leaves every matcher of the cache in the cache, with its rules
PublishedMatchersKept ==
  \A k \in DOMAIN ignoreCache : k \in DOMAIN ignoreCache' /\ ignoreCache'[k] = ignoreCache[k]

\* C20: under every interleaving, a matcher is in the cache only with the
\* rules of every directory of its chain, no call queries a matcher that
\* holds only part of its chain's rules, and no step adds rules to a matcher
\* that is in the cache.
C20_OnlyCompleteMatchersPublished ==
  []OnlyCompleteMatchers /\ [][PublishedMatchersKept]_vars

\* one call is halfway through its build while another call's matcher for
\* the same key is already in the cache and has been queried
C20_Witness ==
  \E c \in AllSlots, d \in AllSlots :
    /\ c # d
    /\ call[c].pc = "reading" /\ call[c].reads = 1 /\ call[c].ig # IgnoreNew
    /\ call[c].ig # SingleBuild(fs, call[c].abs, call[c].root)
    /\ call[d].used # << >> /\ call[d].reads = 2
    /\ CacheKey(call[c].abs, call[c].root) = CacheKey(call[d].abs, call[d].root)
    /\ CacheKey(call[c].abs, call[c].root) \in DOMAIN ignoreCache

----------------------------------------------------------------------------
(* Claims about checks over changing ignore files (StaleSpec) *)

\* a step in which a check finds its key in the cache decides from the
\* matcher stored there and reads no ignore file
HitDecides ==
  \A c \in AllSlots :
    (call[c].decision = "none" /\ call'[c].decision # "none" /\ call'[c].chain = << >>) =>
      LET key == CacheKey(call'[c].abs, call'[c].root)
      IN  /\ key \in DOMAIN ignoreCache
          /\ call'[c].used = <<ignoreCache[key]>>
          /\ call'[c].decision = Decision(ignoreCache[key], call'[c].abs, call'[c].root)
          /\ call'[c].reads = 0

\* a step, a change of an ignore file included, keeps every key of the
\* cache and the matcher stored under it
CacheEntriesKept ==
  \A k \in DOMAIN ignoreCache : k \in DOMAIN ignoreCache' /\ ignoreCache'[k] = ignoreCache[k]

\* a call is building a matcher for the key
BuildInFlight(k) ==
  \E c \in AllSlots : call[c].pc = "reading" /\ CacheKey(call[c].abs, call[c].root) = k

\* a step keeps every key of the cache, and the matcher stored under it
\* unless a build for that key is in flight
CacheEntriesKeptUnlessBuilding ==
  \A k \in DOMAIN ignoreCache :
    /\ k \in DOMAIN ignoreCache'
    /\ ~BuildInFlight(k) => ignoreCache'[k] = ignoreCache[k]

\* C12 (as stated): the cache only grows: no step removes a key, a check
\* whose key is in the cache decides from the stored matcher without reading
\* an ignore file, and once an entry exists no later change of an ignore file
\* alters the matcher the decisions for that directory are made from.
C12_CacheOnlyGrows ==
  [][CacheEntriesKept /\ HitDecides]_vars

\* C12 (amended): as stated, except that the matcher of an existing entry is
\* kept only while no build for its key is in flight: a build that missed
\* the cache before the entry was stored stores its own matcher over it.
C12_CacheGrowsEntriesStableOnceBuilt ==
  [][CacheEntriesKeptUnlessBuilding /\ HitDecides]_vars

\* a path is still denied from the cache after the rule that denied it was
\* deleted from the ignore file
C12_Witness ==
  \E c \in AllSlots :
    /\ Checked(c) /\ ~Built(c) /\ call[c].reads = 0
    /\ call[c].abs = <<"r", "s", "n">>
    /\ call[c].decision = "Access denied"
    /\ fs[<<"r">>] = NoFile
    /\ SequentialDecision(fs, call[c].abs, call[c].root) = "pass"
    /\ call[c].before =
         [abs |-> call[c].abs, root |-> call[c].root, decision |-> "Access denied"]


\* the patch has something to work on: a schema with a properties object
Patchable(tool) == tool.isObj /\ tool.properties.isObj

\* the canonical field of the pair is a declared property of the tool
Declares(tool, pair) == Patchable(tool) /\ Has(tool.properties.props, pair.original)

\* C18 (as stated): after the patch every alias pair whose canonical field is
\* declared has its alias declared, equal to the canonical declaration unless
\* the alias was declared already, and the canonical field occurs nowhere in
\* the required list, however often the input list names it; the input tool
\* is not modified; patching the patched tool returns that very tool.
C18_PatchedSchema ==
  /\ heap.calls >= 1 =>
       /\ \A i \in 1..Len(AliasPairs) :
            Declares(heap.given, AliasPairs[i]) =>
              /\ Has(heap.patched.properties.props, AliasPairs[i].alias)
              /\ ~Has(heap.given.properties.props, AliasPairs[i].alias) =>
                   heap.patched.properties.props[AliasPairs[i].alias]
                     = heap.given.properties.props[AliasPairs[i].original]
              /\ IndexOf(heap.patched.required.items, AliasPairs[i].original) = 0
       /\ heap.params = heap.given
  /\ heap.calls = 2 => (heap.againSame /\ heap.again = heap.patched)


\* the underlying read operation has resolved in the call of slot c
GotResult(c) == InCall(c) /\ call[c].result # << >>

\* the image block the normalizer located in the result of the call
Located(c) == call[c].result[1].content[FindImage(ContentOf(call[c].result[1]))]

HasLocated(c) == GotResult(c) /\ FindImage(ContentOf(call[c].result[1])) # 0

\* sniffing has answered with a type
SniffedType(c) ==
  /\ call[c].sniffed # << >>
  /\ IsString(call[c].sniffed[1])
  /\ call[c].sniffed[1].text # << >>

\* sniffing has answered with no type
SniffedNothing(c) == call[c].sniffed # << >> /\ ~SniffedType(c)

\* the normalizer corrected the declared type in the call of slot c
Corrects(c) ==
  /\ HasLocated(c)
  /\ SniffedType(c)
  /\ StartsWithImage(call[c].sniffed[1].text)
  /\ call[c].sniffed[1] # Located(c).mimeType

\* a text block of the form Read image file [<type>]
IsHeaderBlock(b) ==
  /\ b.type = "text" /\ IsString(b.text)
  /\ StartsWith(b.text.text, ReadImageHeader) /\ EndsWith(b.text.text, "]")

\* C13: when the located image block's sniffed type is an image type other
\* than its declared type, normalizeReadImageResult returns a result whose
\* located image block declares the sniffed type and whose header text
\* blocks read Read image file [<sniffed type>]; when the sniffed type equals
\* the declared one, or sniffing yields no type, or no image block is
\* located, it returns the result it was given.
C13_NormalizerCorrectsDeclaredType ==
  \A c \in Slots :
    GotResult(c) =>
      LET result  == call[c].result[1]
          content == ContentOf(result)
      IN  /\ Corrects(c) =>
               /\ call[c].normalizedResult # << >>
               /\ LET next == call[c].normalizedResult[1].content
                  IN  /\ Len(next) = Len(content)
                      /\ next[FindImage(content)].mimeType = call[c].sniffed[1]
                      /\ \A i \in 1..Len(content) :
                           IsHeaderBlock(content[i]) =>
                             next[i].text =
                               Str(<<ReadImageHeader>> \o call[c].sniffed[1].text \o <<"]">>)
          /\ ( \/ ~HasLocated(c)
               \/ SniffedNothing(c)
               \/ (SniffedType(c) /\ call[c].sniffed[1] = Located(c).mimeType) )
              => call[c].normalizedResult = <<result>>

C13_Witness ==
  \E c \in Slots :
    /\ GotResult(c)
    /\ call[c].result[1].content =
         << ImageBlock(Str(<<"QUJD", "QUJD">>), Str(ImagePng)),
            TextBlock(Str(<<ReadImageHeader>> \o ImagePng \o <<"]">>)) >>
    /\ call[c].sniffed = <<Str(ImageJpeg)>>
    /\ call[c].normalizedResult # << >>
    /\ call[c].normalizedResult[1].content =
         << ImageBlock(Str(<<"QUJD", "QUJD">>), Str(ImageJpeg)),
            TextBlock(Str(<<ReadImageHeader>> \o ImageJpeg \o <<"]">>)) >>

C19_OtherBlocksUntouched ==
  \A c \in Slots :
    (Corrects(c) /\ call[c].normalizedResult # << >>) =>
      LET content == ContentOf(call[c].result[1])
          next    == call[c].normalizedResult[1].content
      IN  /\ Len(next) = Len(content)
          /\ \A i \in 1..Len(content) :
               (i # FindImage(content) /\ ~IsHeaderBlock(content[i])) => next[i] = content[i]

====
